---- MODULE Spec2Model ----
(***************************************************************************)
(* State-machine model of koishi-core's App: the middleware dispatcher     *)
(* (_applyMiddlewares and its continuation `next`), the first middleware   *)
(* of every chain, _preprocess (addressing, attachment gate and command    *)
(* dispatch trigger), getSelfIds and prepare, start and stop.              *)
(*                                                                         *)
(* Every message is handled by its own asynchronous task.  A task, and     *)
(* every middleware it starts, runs to its next suspension point without   *)
(* interruption; the model takes one step per piece of code between two    *)
(* suspension points and interleaves the pieces of different tasks freely. *)
(*                                                                         *)
(* Five specifications share the variables:                                *)
(*   Spec      an App without database; messages are dispatched            *)
(*             concurrently through chains of plugin middlewares that      *)
(*             invoke their continuation any number of times, supply       *)
(*             fallbacks, return, throw or reject;                         *)
(*   SpecMessage  an App with or without database and the dispatch of its  *)
(*             first message through the same chains, registered for every *)
(*             kind of session; every stored row and every listener        *)
(*             verdict is enumerated;                                      *)
(*   SpecParse    the addressing of one message by _preprocess: every      *)
(*             message of up to MaxMsgLen characters, in every kind of     *)
(*             session, under several nickname and prefix options, before  *)
(*             and after prepare();                                        *)
(*   SpecSelfIds  concurrent calls of getSelfIds over two bots whose       *)
(*             getLoginInfo calls succeed or fail;                         *)
(*   SpecLifecycle  calls of start() and stop() in any order, each         *)
(*             suspended while its listeners run.                          *)
(*                                                                         *)
(* A plugin middleware is "running" from the moment `next` invokes it      *)
(* until the promise it returned settles; a callback it handed to a timer  *)
(* or to another promise is part of it.  A middleware that throws before   *)
(* it returns does so in the step that starts it.                          *)
(***************************************************************************)
EXTENDS Naturals, Integers, Sequences, FiniteSets, TLC

\* ------------------------------------------------------------------ bounds
MaxDispatch == 2    \* messages received in one behaviour
MaxHooks == 2       \* middlewares registered by plugins, besides _preprocess
MaxCalls == 2       \* invocations of the continuation by plugin middlewares
MaxFallbacks == 2   \* fallbacks supplied to the continuation

\* --------------------------------------------------------- program values
Kinds == {"private", "group", "discuss"}     \* session.messageType
Bots == {1, 2}                               \* bot identifiers (selfId, assignee)
Flags == {0, 1, 2}                           \* flag bitmasks of a stored row
IgnoreBit == 1                               \* Group.Flag.ignore, User.Flag.ignore
Scopes == {Kinds, {"group"}}                 \* selector scopes of a registration
ListenerFields == {"authority"}              \* a column 'before-attach-*' listeners add

HasBit(flag, bit) == (flag \div bit) % 2 = 1 \* flag & bit

VARIABLES
    database,            \* this.database is configured
    hooks,               \* this._hooks[Context.MIDDLEWARE_EVENT]
    _middlewareCounter,  \* this._middlewareCounter
    _middlewareSet,      \* this._middlewareSet
    disp,                \* one record per call of _applyMiddlewares, by token
    status,              \* this.status
    lifecycle,           \* the calls of start() and stop(), in the order made
    bots,                \* this.server.bots
    _getSelfIdsPromise,  \* this._getSelfIdsPromise
    callers,             \* the calls of getSelfIds()
    options,             \* this.options: the nickname and prefix lists
    _atMeRE,             \* this._atMeRE
    parsed               \* the message _preprocess addressed, and session.$parsed

\* the variables of the dispatcher, and those of the rest of the App
dispatchVars == <<database, hooks, _middlewareCounter, _middlewareSet, disp>>
appVars == <<status, lifecycle, bots, _getSelfIdsPromise, callers, options,
             _atMeRE, parsed>>
vars == <<dispatchVars, appVars>>

Tokens == 0 .. (MaxDispatch - 1)

\* The entry of _preprocess in the registration list (constructor, line 104);
\* it is registered on the App itself, whose scope matches every session.
PreprocessHook == [id |-> 0, scope |-> Kinds]

\* context.match(session) of a registration
Match(hook, session) == session.kind \in hook.scope

\* A snapshot entry: a registered middleware, or a fallback wrapped by `next`
\* (id: the snapshot position of the middleware that supplied it;  cursor: the
\* value of `index` when it was supplied, i.e. how many entries had started)
MwEntry(hook) == [fallback |-> FALSE, id |-> hook.id, cursor |-> 0]
FallbackEntry(caller, cursor) == [fallback |-> TRUE, id |-> caller, cursor |-> cursor]

\* A session.  groupFields, userFields: the field sets handed to observeGroup
\* and observeUser;  groupListened, userListened: what the 'before-attach-*'
\* listeners added to them;  group, user: the columns of the loaded rows
NoSession == [kind |-> "private", selfId |-> 1,
              atMe |-> FALSE, argv |-> FALSE,
              hasGroup |-> FALSE, gflag |-> 0, assignee |-> 1,
              hasUser |-> FALSE, uflag |-> 0,
              groupFields |-> {}, groupListened |-> {}, group |-> {},
              userFields |-> {}, userListened |-> {}, user |-> {}]

NoCall == [error |-> "none", caught |-> FALSE]

\* The state of one dispatch.
\*   task         where _applyMiddlewares stands: "idle" (not called), "chain"
\*                (await next()), "flush", "done", "rejected"
\*   middlewares  the snapshot;  index: the cursor
\*   status       per snapshot position: "idle", "running", "resolved",
\*                "thrown", "rejected", "delegated" (returned next())
\*   calls        per snapshot position: invocations of next by its middleware
\*   order        the positions in the order in which they were started
\*   ncalls       invocations of next;  warn: warnings logged by next
\*   last         the latest invocation of next: the error raised in it
\*                ("none", "isolated", "middleware") and whether the catch
\*                clause of next caught it
\*   pre          where _preprocess stands;  preNext: the position started by
\*                its `return next()`;  preCalls: its invocations of next
\*   nhooks       length of the registration list when the snapshot was taken
Idle == [task |-> "idle", session |-> NoSession, middlewares |-> <<>>,
         index |-> 0, status |-> <<>>, calls |-> <<>>, order |-> <<>>,
         ncalls |-> 0, warn |-> 0, last |-> NoCall,
         pre |-> "idle", preNext |-> 0, preCalls |-> 0,
         attach |-> 0, executed |-> 0, nhooks |-> 0,
         emitted |-> 0, userFlushed |-> 0, groupFlushed |-> 0]

\* ------------------------------------------------------------ registration
\* Context.middleware: append a (scope, callback) pair to the shared list
middleware(scope) ==
    /\ Len(hooks) < MaxHooks + 1
    /\ hooks' = Append(hooks, [id |-> Len(hooks), scope |-> scope])
    /\ UNCHANGED <<database, _middlewareCounter, _middlewareSet, disp>>
    /\ UNCHANGED appVars

\* ------------------------------------------------------------ the dispatcher
RECURSIVE Snapshot(_, _)
\* hooks.filter(([context]) => context.match(session)).map(([_, m]) => m)
Snapshot(hs, session) ==
    IF hs = <<>> THEN <<>>
    ELSE LET rest == Snapshot(Tail(hs), session)
         IN IF Match(Head(hs), session) THEN <<MwEntry(Head(hs))>> \o rest
            ELSE rest

IsPreprocess(r, p) == r.middlewares[p] = MwEntry(PreprocessHook)

Positions(r) == 1 .. Len(r.middlewares)

\* (variant: the fallback is put at the cursor instead of the end)
PushFallbackAtCursor(r, caller) ==
    IF r.index >= Len(r.middlewares)
    THEN [r EXCEPT !.middlewares = Append(@, FallbackEntry(caller, r.index)),
                   !.status = Append(@, "idle"),
                   !.calls = Append(@, 0)]
    ELSE [r EXCEPT !.middlewares = SubSeq(@, 1, r.index)
                                      \o <<FallbackEntry(caller, r.index)>>
                                      \o SubSeq(@, r.index + 1, Len(@)),
                   !.status = SubSeq(@, 1, r.index) \o <<"idle">>
                                 \o SubSeq(@, r.index + 1, Len(@)),
                   !.calls = SubSeq(@, 1, r.index) \o <<0>>
                                \o SubSeq(@, r.index + 1, Len(@))]

\* middlewares.push((_, next) => fallback(next))
PushFallback(r, caller) ==
    [r EXCEPT !.middlewares = Append(@, FallbackEntry(caller, r.index)),
              !.status = Append(@, "idle"),
              !.calls = Append(@, 0)]

\* The continuation `next` of one dispatch (lines 233-253), invoked by the
\* middleware at snapshot position `caller` (0: by _applyMiddlewares itself);
\* `live` tells whether the dispatch's token is in _middlewareSet, `fb` whether
\* a fallback is supplied, `throws` whether the middleware it invokes throws
\* before it returns.  Each part maps the state of the dispatch before the
\* invocation to its state after it.

\* the invocation itself
Invoked(r, caller) ==
    [r EXCEPT !.ncalls = @ + 1,
              !.calls = IF caller = 0 THEN @ ELSE [@ EXCEPT ![caller] = @ + 1]]

\* lines 241-243, 246-252: throw new Error('isolated next function detected'),
\* which the catch clause of `next` catches and logs
Isolated(c) ==
    [c EXCEPT !.warn = @ + 1, !.last = [error |-> "isolated", caught |-> TRUE]]

\* (variant: the cursor is read but not advanced)
CursorStays(r) == IF r.index = 0 THEN 1 ELSE r.index

\* (variant: the cursor is advanced twice)
CursorSkips(r) == r.index + 2

\* middlewares[index++]: the snapshot position the cursor selects
Cursor(r) == r.index + 1

\* line 245 and the catch clause: invoke the middleware at the cursor; what it
\* throws before returning is caught and logged
Invoke(p, throws) ==
    LET pos == Cursor(p)
    IN  IF pos > Len(p.middlewares)
        THEN [p EXCEPT !.index = pos, !.last = [error |-> "none", caught |-> FALSE]]
        ELSE IF throws
        THEN [p EXCEPT !.index = pos,
                       !.status[pos] = "thrown",
                       !.order = Append(@, pos),
                       !.warn = @ + 1,
                       !.last = [error |-> "middleware", caught |-> TRUE]]
        ELSE [p EXCEPT !.index = pos,
                       !.status[pos] = "running",
                       !.order = Append(@, pos),
                       !.last = [error |-> "none", caught |-> FALSE]]

\* (variant: the registration list is filtered again at every invocation)
Reread(c) ==
    LET now == Snapshot(hooks, c.session)
        more == Len(now) - Len(c.middlewares)
    IN  IF more > 0 /\ \A i \in 1 .. Len(c.middlewares) : ~c.middlewares[i].fallback
        THEN [c EXCEPT !.middlewares = now,
                       !.status = @ \o [i \in 1 .. more |-> "idle"],
                       !.calls = @ \o [i \in 1 .. more |-> 0]]
        ELSE c

AdvanceRereads(c, caller, fb, throws) ==
    Invoke(IF fb THEN PushFallback(Reread(c), caller) ELSE Reread(c), throws)

\* lines 244-245: append the fallback, invoke the middleware at the cursor
Advance(c, caller, fb, throws) ==
    Invoke(IF fb THEN PushFallback(c, caller) ELSE c, throws)

\* (variant: the token is not looked up)
nextUnchecked(r, live, caller, fb, throws) ==
    Advance(Invoked(r, caller), caller, fb, throws)

\* (variant: a continuation whose token is gone returns without a word)
nextSilent(r, live, caller, fb, throws) ==
    IF ~live THEN Invoked(r, caller)
    ELSE Advance(Invoked(r, caller), caller, fb, throws)

next(r, live, caller, fb, throws) ==
    IF ~live THEN Isolated(Invoked(r, caller))
    ELSE Advance(Invoked(r, caller), caller, fb, throws)

\* How the promise returned by the invocation of `next` that started position
\* p settles (p = 0: the invocation started no middleware).  An async function
\* that returns a promise inside try/catch without awaiting it adopts the
\* promise: a rejection passes to the invoker, a synchronous throw was caught.
Result(r, p) ==
    LET Of(q) == IF q = 0 THEN "resolved"
                 ELSE CASE r.status[q] = "running" -> "pending"
                        [] r.status[q] = "rejected" -> "rejected"
                        [] OTHER -> "resolved"
    IN  IF p = 0 THEN "resolved"
        ELSE IF r.status[p] = "delegated" THEN Of(r.preNext)
        ELSE Of(p)

\* the promise of `await next()` in _applyMiddlewares (line 254)
TopResult(r) == Result(r, IF Len(r.order) > 0 THEN 1 ELSE 0)

\* ------------------------------------------------------------ _preprocess
PrePos(r) == CHOOSE p \in Positions(r) : IsPreprocess(r, p)

\* (variant: what the listeners add to the field set is dropped)
GroupFieldsBuiltIn(listened) == {"flag", "assignee"}

\* lines 192-193: the built-in group columns and those the
\* 'before-attach-group' listeners add
GroupFields(listened) == {"flag", "assignee"} \cup listened

\* (variant: what the listeners add to the field set is dropped)
UserFieldsBuiltIn(listened) == {"flag"}

\* lines 205-206: the built-in user column and those the 'before-attach-user'
\* listeners add
UserFields(listened) == {"flag"} \cup listened

\* session.observeGroup(fields), session.observeUser(fields): the columns of
\* the row once the load has completed, merged into those it had
observe(loaded, fields) == loaded \cup fields

\* lines 205-207 on a session: emit 'before-attach-user', start loading
AttachUser(s, listened) ==
    [s EXCEPT !.userListened = listened, !.userFields = UserFields(listened)]

\* lines 192-194 on a session: emit 'before-attach-group', start loading
AttachGroup(s, listened) ==
    [s EXCEPT !.groupListened = listened, !.groupFields = GroupFields(listened)]

\* _preprocess up to its first suspension (lines 161-194, 205-207, 216):
\* strip the address, parse, and start loading a row or, without database,
\* emit 'attach'.  `mentions`: the at-mention pattern matches the message;
\* `argv`: the parse resolves a command; `listened`: the columns the
\* 'before-attach-*' listeners emitted here add.
_preprocess(r, db, mentions, argv, listened) ==
    LET atMe == r.session.kind # "private" /\ mentions
        s == [r.session EXCEPT !.atMe = atMe, !.argv = argv]
    IN  [r EXCEPT !.session = IF ~db THEN s
                              ELSE IF s.kind = "group" THEN AttachGroup(s, listened)
                              ELSE AttachUser(s, listened),
                  !.attach = IF db THEN @ ELSE @ + 1,
                  !.pre = IF ~db THEN "attach"
                          ELSE IF s.kind = "group" THEN "group" ELSE "user"]

\* _applyMiddlewares up to its first suspension (lines 225-254): mint the
\* token, add it to the live set, take the snapshot, invoke next(), which
\* starts the first middleware of the snapshot, _preprocess
_applyMiddlewares(kind, selfId, mentions, argv, listened) ==
    /\ _middlewareCounter < MaxDispatch
    /\ LET counter == _middlewareCounter
           session == [NoSession EXCEPT !.kind = kind, !.selfId = selfId]
           middlewares == Snapshot(hooks, session)
           r == [Idle EXCEPT !.task = "chain",
                             !.session = session,
                             !.middlewares = middlewares,
                             !.nhooks = Len(hooks),
                             !.status = [i \in 1 .. Len(middlewares) |-> "idle"],
                             !.calls = [i \in 1 .. Len(middlewares) |-> 0]]
           n == next(r, TRUE, 0, FALSE, FALSE)
       IN  /\ _middlewareCounter' = counter + 1
           /\ _middlewareSet' = _middlewareSet \cup {counter}
           /\ disp' = [disp EXCEPT ![counter] =
                         IF n.order # <<>> /\ IsPreprocess(n, n.index)
                         THEN _preprocess(n, database, mentions, argv, listened) ELSE n]
    /\ UNCHANGED <<database, hooks>>
    /\ UNCHANGED appVars

\* `await next()` resolved (lines 257-258): remove the token, emit
\* 'after-middleware', start flushing
AfterMiddleware(d) ==
    /\ disp[d].task = "chain"
    /\ TopResult(disp[d]) = "resolved"
    /\ _middlewareSet' = _middlewareSet \ {d}
    /\ disp' = [disp EXCEPT ![d].emitted = @ + 1, ![d].task = "flush"]
    /\ UNCHANGED <<database, hooks, _middlewareCounter>>
    /\ UNCHANGED appVars

\* session.$user?._update() and session.$group?._update() (lines 261-262)
Flush(d) ==
    /\ disp[d].task = "flush"
    /\ disp' = [disp EXCEPT
                 ![d].userFlushed = IF disp[d].session.hasUser THEN @ + 1 ELSE @,
                 ![d].groupFlushed = IF disp[d].session.hasGroup THEN @ + 1 ELSE @,
                 ![d].task = "done"]
    /\ UNCHANGED <<database, hooks, _middlewareCounter, _middlewareSet>>
    /\ UNCHANGED appVars

\* `await next()` rejected (line 254): the rejection leaves _applyMiddlewares
Rejected(d) ==
    /\ disp[d].task = "chain"
    /\ TopResult(disp[d]) = "rejected"
    /\ disp' = [disp EXCEPT ![d].task = "rejected"]
    /\ UNCHANGED <<database, hooks, _middlewareCounter, _middlewareSet>>
    /\ UNCHANGED appVars

\* ------------------------------------------------- middlewares of plugins
NumFallbacks(r) == Cardinality({p \in Positions(r) : r.middlewares[p].fallback})

RECURSIVE SumSeq(_)
SumSeq(q) == IF q = <<>> THEN 0 ELSE Head(q) + SumSeq(Tail(q))

RECURSIVE SumOver(_, _)
SumOver(S, f) ==
    IF S = {} THEN 0
    ELSE LET x == CHOOSE y \in S : TRUE IN f[x] + SumOver(S \ {x}, f)

\* continuation invocations made, and fallbacks supplied, by plugin middlewares
PluginCalls ==
    SumOver(Tokens, [d \in Tokens |-> SumSeq(disp[d].calls) - disp[d].preCalls])
PluginFallbacks == SumOver(Tokens, [d \in Tokens |-> NumFallbacks(disp[d])])

\* a running middleware (or fallback) invokes its continuation
MwNext(d, p, fb, throws) ==
    /\ p \in Positions(disp[d])
    /\ ~IsPreprocess(disp[d], p)
    /\ disp[d].status[p] = "running"
    /\ PluginCalls < MaxCalls
    /\ fb => PluginFallbacks < MaxFallbacks
    /\ disp' = [disp EXCEPT ![d] = next(@, d \in _middlewareSet, p, fb, throws)]
    /\ UNCHANGED <<database, hooks, _middlewareCounter, _middlewareSet>>
    /\ UNCHANGED appVars

\* a middleware returns, or the promise it returned resolves
MwReturn(d, p) ==
    /\ p \in Positions(disp[d])
    /\ ~IsPreprocess(disp[d], p)
    /\ disp[d].status[p] = "running"
    /\ disp' = [disp EXCEPT ![d].status[p] = "resolved"]
    /\ UNCHANGED <<database, hooks, _middlewareCounter, _middlewareSet>>
    /\ UNCHANGED appVars

\* the promise a middleware returned rejects
MwReject(d, p) ==
    /\ p \in Positions(disp[d])
    /\ ~IsPreprocess(disp[d], p)
    /\ disp[d].status[p] = "running"
    /\ disp' = [disp EXCEPT ![d].status[p] = "rejected"]
    /\ UNCHANGED <<database, hooks, _middlewareCounter, _middlewareSet>>
    /\ UNCHANGED appVars

\* ------------------------------------------- _preprocess, after suspension
AtPre(d, pc) == disp[d].task # "idle" /\ disp[d].pre = pc

\* line 194: session.observeGroup(groupFields) has loaded the group row
PreObserveGroup(d, flag, assignee) ==
    /\ AtPre(d, "group")
    /\ disp' = [disp EXCEPT ![d].session.hasGroup = TRUE,
                            ![d].session.gflag = flag,
                            ![d].session.assignee = assignee,
                            ![d].session.group = observe(@, disp[d].session.groupFields),
                            ![d].pre = "attachGroup"]
    /\ UNCHANGED <<database, hooks, _middlewareCounter, _middlewareSet>>
    /\ UNCHANGED appVars

\* (variant: the assignee is not looked at)
GroupGateIgnoreOnly(s) == HasBit(s.gflag, IgnoreBit)

\* lines 200-201: ignore some group calls
GroupGate(s) ==
    \/ HasBit(s.gflag, IgnoreBit)
    \/ s.assignee # s.selfId /\ ~s.atMe

\* line 213: ignore some user calls
UserGate(s) == HasBit(s.uflag, IgnoreBit)

\* lines 197-207: the 'attach-group' listeners have run (veto: one of them
\* returned a truthy value); past the gate, 'before-attach-user' is emitted
\* (listened: the columns its listeners add, which they do for the command
\* that was resolved) and the user row is requested
PreAttachGroup(d, veto, listened) ==
    /\ AtPre(d, "attachGroup")
    /\ (veto \/ GroupGate(disp[d].session) \/ ~disp[d].session.argv) => listened = {}
    /\ IF veto \/ GroupGate(disp[d].session)
       THEN disp' = [disp EXCEPT ![d].status[PrePos(disp[d])] = "resolved",
                                 ![d].pre = "end"]
       ELSE disp' = [disp EXCEPT ![d].session = AttachUser(@, listened),
                                 ![d].pre = "user"]
    /\ UNCHANGED <<database, hooks, _middlewareCounter, _middlewareSet>>
    /\ UNCHANGED appVars

\* line 207: session.observeUser(userFields) has loaded the user row
PreObserveUser(d, flag) ==
    /\ AtPre(d, "user")
    /\ disp' = [disp EXCEPT ![d].session.hasUser = TRUE,
                            ![d].session.uflag = flag,
                            ![d].session.user = observe(@, disp[d].session.userFields),
                            ![d].pre = "attachUser"]
    /\ UNCHANGED <<database, hooks, _middlewareCounter, _middlewareSet>>
    /\ UNCHANGED appVars

\* lines 210-216: the 'attach-user' listeners have run; 'attach' is emitted
PreAttachUser(d, veto) ==
    /\ AtPre(d, "attachUser")
    /\ IF veto \/ UserGate(disp[d].session)
       THEN disp' = [disp EXCEPT ![d].status[PrePos(disp[d])] = "resolved",
                                 ![d].pre = "end"]
       ELSE disp' = [disp EXCEPT ![d].attach = @ + 1, ![d].pre = "attach"]
    /\ UNCHANGED <<database, hooks, _middlewareCounter, _middlewareSet>>
    /\ UNCHANGED appVars

\* (variant: the continuation is invoked whether or not a command is run)
TriggerFallsThrough(r, live, throws) ==
    LET n == next(r, live, PrePos(r), FALSE, throws)
        m == [n EXCEPT !.status[PrePos(r)] = "delegated",
                       !.preCalls = @ + 1,
                       !.preNext = IF Len(n.order) > Len(r.order) THEN n.index ELSE 0,
                       !.pre = "end"]
    IN  IF r.session.argv THEN [m EXCEPT !.executed = @ + 1] ELSE m

\* lines 219-220, on the state r of a dispatch whose token is `live`
Trigger(r, live, throws) ==
    IF ~r.session.argv
    THEN \* return next()
         LET n == next(r, live, PrePos(r), FALSE, throws)
         IN  [n EXCEPT !.status[PrePos(r)] = "delegated",
                       !.preCalls = @ + 1,
                       !.preNext = IF Len(n.order) > Len(r.order) THEN n.index ELSE 0,
                       !.pre = "end"]
    ELSE \* return session.$argv.command.execute(session.$argv)
         [r EXCEPT !.executed = @ + 1, !.pre = "execute"]

\* lines 216-220: the 'attach' listeners have completed
PreTrigger(d, throws) ==
    /\ AtPre(d, "attach")
    /\ disp' = [disp EXCEPT ![d] = Trigger(@, d \in _middlewareSet, throws)]
    /\ UNCHANGED <<database, hooks, _middlewareCounter, _middlewareSet>>
    /\ UNCHANGED appVars

\* line 220: the promise of command.execute settles, and with it _preprocess
PreExecuted(d, ok) ==
    /\ AtPre(d, "execute")
    /\ disp' = [disp EXCEPT
                 ![d].status[PrePos(disp[d])] = IF ok THEN "resolved" ELSE "rejected",
                 ![d].pre = "end"]
    /\ UNCHANGED <<database, hooks, _middlewareCounter, _middlewareSet>>
    /\ UNCHANGED appVars

\* ------------------------------------------------- the addressing patterns
\* A message is a sequence of characters; the CQ code of an at-mention,
\* [CQ:at,qq=<id>], is one character of the alphabet.  The alphabet holds no
\* traditional Chinese character, the only ones `simplify` rewrites.
MaxMsgLen == 3      \* characters of a received message

AtCode(id) == IF id = 1 THEN "[CQ:at,qq=1]" ELSE "[CQ:at,qq=2]"
Chars == {AtCode(1), "@", " ", ",", "k", ".", "/", "p", "P"}
Space == " "

\* the messages of at most n characters
Messages(n) == UNION {[1 .. len -> Chars] : len \in 0 .. n}

Null == <<"null">>          \* null, where a string is expected
Undefined == [set |-> FALSE, empty |-> FALSE, prefix |-> "", patterns |-> <<>>, suffix |-> ""]

\* the three patterns' fixed parts (lines 99, 100 and 140)
AtPrefix == "\\[CQ:at,qq="
AtSuffix == "\\]\\s*"
NamePrefix == "@?"
NameSuffix == "([,]\\s*|\\s+)"

\* lines 38-40: ^prefix(p1|p2|...)suffix, or /^$/ for an empty list
createLeadingRE(patterns, prefix, suffix) ==
    IF Len(patterns) > 0
    THEN [set |-> TRUE, empty |-> FALSE, prefix |-> prefix, patterns |-> patterns,
          suffix |-> suffix]
    ELSE [set |-> TRUE, empty |-> TRUE, prefix |-> "", patterns |-> <<>>, suffix |-> ""]

Drop(m, n) == SubSeq(m, n + 1, Len(m))      \* m.slice(n)
Take(m, n) == SubSeq(m, 1, n)               \* m.slice(0, n)
StartsWith(m, x) == Len(x) <= Len(m) /\ Take(m, Len(x)) = x

RECURSIVE Spaces(_)
\* the length of the longest run of whitespace m begins with (\s*)
Spaces(m) == IF m # <<>> /\ Head(m) = Space THEN 1 + Spaces(Tail(m)) ELSE 0

\* the lengths the fixed part before the alternatives can consume, in the
\* order tried: `@?` is greedy
LeadLens(prefix, m) ==
    IF prefix = NamePrefix /\ m # <<>> /\ Head(m) = "@" THEN <<1, 0>> ELSE <<0>>

\* the length alternative `item` consumes at the front of m, -1: no match.
\* Items are escaped, so they match literally; between AtPrefix and AtSuffix
\* the item is the identifier of an at-mention code.
ItemLen(prefix, item, m) ==
    IF prefix = AtPrefix
    THEN IF m # <<>> /\ Head(m) = AtCode(item) THEN 1 ELSE -1
    ELSE IF StartsWith(m, item) THEN Len(item) ELSE -1

\* (variant: the separator after a nickname is optional)
TailLenOptional(suffix, m) ==
    IF suffix = AtSuffix THEN Spaces(m)
    ELSE IF suffix = NameSuffix
    THEN IF m # <<>> /\ Head(m) = "," THEN 1 + Spaces(Tail(m)) ELSE Spaces(m)
    ELSE 0

\* the length the fixed part after the alternatives consumes, -1: no match
TailLen(suffix, m) ==
    IF suffix = AtSuffix THEN Spaces(m)
    ELSE IF suffix = NameSuffix
    THEN IF m # <<>> /\ Head(m) = "," THEN 1 + Spaces(Tail(m))
         ELSE IF Spaces(m) >= 1 THEN Spaces(m) ELSE -1
    ELSE 0

\* the length of the match with the fixed part consuming `lead` characters and
\* alternative i chosen, -1: no match
MatchLen(re, m, lead, i) ==
    LET item == ItemLen(re.prefix, re.patterns[i], Drop(m, lead))
        tail == IF item < 0 THEN -1 ELSE TailLen(re.suffix, Drop(m, lead + item))
    IN  IF item < 0 \/ tail < 0 THEN -1 ELSE lead + item + tail

\* message.match(re): capture[0], or Null.  match(undefined) matches the
\* empty pattern; /^$/ matches the empty message; otherwise the first match
\* in the order in which the engine tries the alternatives.
Match0(re, m) ==
    IF ~re.set THEN <<>>
    ELSE IF re.empty THEN (IF m = <<>> THEN <<>> ELSE Null)
    ELSE LET leads == LeadLens(re.prefix, m)
             tries == {<<j, i>> \in (1 .. Len(leads)) \X (1 .. Len(re.patterns)) :
                          MatchLen(re, m, leads[j], i) >= 0}
             Before(a, b) == a[1] < b[1] \/ (a[1] = b[1] /\ a[2] <= b[2])
         IN  IF tries = {} THEN Null
             ELSE LET t == CHOOSE a \in tries : \A b \in tries : Before(a, b)
                  IN  Take(m, MatchLen(re, m, leads[t[1]], t[2]))

RECURSIVE TrimStart(_)
TrimStart(m) == IF m # <<>> /\ Head(m) = Space THEN TrimStart(Tail(m)) ELSE m

RECURSIVE TrimEnd(_)
TrimEnd(m) ==
    IF m # <<>> /\ m[Len(m)] = Space THEN TrimEnd(Take(m, Len(m) - 1)) ELSE m

\* simplify(session.message.trim())
Trim(m) == TrimEnd(TrimStart(m))

\* lines 96-100: the configured lists.  An option is a list (isArray) or a
\* single string, <<>> standing for an option left out.
NoOption == [isArray |-> FALSE, items |-> <<>>]
Single(o) == IF o.items # <<>> /\ o.items[1] # <<>> THEN o.items[1] ELSE <<>>
nicknames ==
    IF options.nickname.isArray THEN options.nickname.items
    ELSE IF Single(options.nickname) # <<>> THEN <<Single(options.nickname)>> ELSE <<>>
prefixes ==
    IF options.prefix.isArray THEN options.prefix.items
    ELSE <<Single(options.prefix)>>
_nameRE == createLeadingRE(nicknames, NamePrefix, NameSuffix)
_prefixRE == createLeadingRE(prefixes, "", "")

RECURSIVE SelfIdsOf(_, _)
\* server.bots.filter(bot => bot.selfId && bot._get).map(bot => '' + bot.selfId)
SelfIdsOf(bs, ids) ==
    IF ids = {} THEN <<>>
    ELSE LET b == CHOOSE x \in ids : \A y \in ids : x <= y
             rest == SelfIdsOf(bs, ids \ {b})
         IN  IF bs[b].selfId # 0 /\ bs[b]._get THEN <<bs[b].selfId>> \o rest ELSE rest

\* lines 136-141, on the bots bs
prepared(bs) == createLeadingRE(SelfIdsOf(bs, DOMAIN bs), AtPrefix, AtSuffix)

\* --------------------------------------------- _preprocess: the addressing
Commands == {<<"p">>}       \* the names in this._commandMap

\* String.prototype.toLowerCase
Lower(c) == IF c = "P" THEN "p" ELSE IF c = AtCode(1) THEN "[cq:at,qq=1]" ELSE c
toLowerCase(m) == [i \in 1 .. Len(m) |-> Lower(m[i])]

RECURSIVE FirstWord(_)
\* message.split(/\s/, 1)[0]
FirstWord(m) ==
    IF m = <<>> \/ Head(m) = Space THEN <<>> ELSE <<Head(m)>> \o FirstWord(Tail(m))

\* name.lastIndexOf('/') + 1
AfterLastSlash(name) ==
    LET at == {i \in 1 .. Len(name) : name[i] = "/"}
    IN  IF at = {} THEN 0 ELSE CHOOSE i \in at : \A j \in at : j <= i

\* this._commandMap[name.slice(index + 1).toLowerCase()], Null: no command
Lookup(message) ==
    LET name == FirstWord(message)
        key == toLowerCase(Drop(name, AfterLastSlash(name)))
    IN  IF key \in Commands THEN key ELSE Null

\* (variant: the addressing is not looked at)
OnParseAnywhere(message, p, messageType, forced) == Lookup(message)

\* lines 106-114: the 'parse' listener; the name of the command it resolves
OnParse(message, p, messageType, forced) ==
    IF forced /\ p.prefix = Null /\ p.nickname = <<>> /\ messageType # "private"
    THEN Null
    ELSE Lookup(message)

\* Context.parse: the result of the 'parse' listeners
parse(message, p, messageType, forced) == OnParse(message, p, messageType, forced)

\* (variant: the at-mention is looked for in every session)
AtCaptureAnywhere(messageType, m, atRE) == Match0(atRE, m)

\* line 168: the at-mention is looked for outside private sessions
AtCapture(messageType, m, atRE) ==
    IF messageType # "private" THEN Match0(atRE, m) ELSE Null

\* lines 168-172: the at-mention.  Each of the three steps maps what
\* _preprocess has so far (atMe, nickname, prefix, message and the captures)
\* to what it has after the step.
StripAtMe(messageType, m, atRE) ==
    LET capture == AtCapture(messageType, m, atRE)
    IN  IF capture # Null
        THEN [atMe |-> TRUE, nickname |-> capture, prefix |-> Null,
              message |-> Drop(m, Len(capture)),
              atCapture |-> capture, nameCapture |-> Null]
        ELSE [atMe |-> FALSE, nickname |-> <<>>, prefix |-> Null,
              message |-> m,
              atCapture |-> capture, nameCapture |-> Null]

\* lines 174-177: the nickname
StripNickname(s) ==
    LET capture == Match0(_nameRE, s.message)
    IN  IF capture # Null /\ Len(capture) > 0
        THEN [s EXCEPT !.nickname = capture,
                       !.message = Drop(@, Len(capture)),
                       !.nameCapture = capture]
        ELSE [s EXCEPT !.nameCapture = capture]

\* lines 180-183: the prefix
StripPrefix(s) ==
    LET capture == Match0(_prefixRE, s.message)
    IN  IF capture # Null
        THEN [s EXCEPT !.prefix = capture, !.message = Drop(@, Len(capture))]
        ELSE s

\* lines 186-187: session.$parsed and session.$argv
Parsed(messageType, raw, s) ==
    [done |-> TRUE, messageType |-> messageType, raw |-> raw,
     atMe |-> s.atMe, nickname |-> s.nickname, prefix |-> s.prefix,
     message |-> s.message,
     atCapture |-> s.atCapture, nameCapture |-> s.nameCapture,
     argv |-> parse(s.message,
                    [atMe |-> s.atMe, nickname |-> s.nickname,
                     prefix |-> s.prefix, message |-> s.message],
                    messageType, TRUE)]

\* lines 161-187 of _preprocess, on a session of kind messageType with the
\* message raw: session.$parsed, the captures and session.$argv
StripAddress(messageType, raw, atRE) ==
    Parsed(messageType, raw,
           StripPrefix(StripNickname(StripAtMe(messageType, Trim(raw), atRE))))

NoParsed == [done |-> FALSE, messageType |-> "private", raw |-> <<>>,
             atMe |-> FALSE, nickname |-> <<>>, prefix |-> Null, message |-> <<>>,
             atCapture |-> Null, nameCapture |-> Null, argv |-> Null]

\* a message is received and _preprocess addresses it
PreprocessMessage(messageType, raw) ==
    /\ ~parsed.done
    /\ parsed' = StripAddress(messageType, raw, _atMeRE)
    /\ UNCHANGED <<status, lifecycle, bots, _getSelfIdsPromise, callers, options, _atMeRE>>
    /\ UNCHANGED dispatchVars

\* prepare() is called (lines 136-141)
prepare ==
    /\ ~parsed.done
    /\ _atMeRE' = prepared(bots)
    /\ UNCHANGED <<status, lifecycle, bots, _getSelfIdsPromise, callers, options, parsed>>
    /\ UNCHANGED dispatchVars

\* ------------------------------------------------------------ getSelfIds
MaxCallers == 3     \* calls of getSelfIds

\* A bot.  given: its selfId was configured;  login: its getLoginInfo call
\* ("none", "pending", "done", "failed");  lookups: calls of getLoginInfo
Bot(id, get, given) ==
    [_get |-> get, given |-> given, selfId |-> IF given THEN id ELSE 0,
     login |-> "none", lookups |-> 0]

NoCaller == [pc |-> "idle", pending |-> FALSE, result |-> <<>>]

\* the bots the callback of bots.map looks up (line 126)
NeedsLookup(b) == ~(b.selfId # 0 \/ ~b._get)

\* (variant: every call starts a resolution of its own)
ToResolveAlways(promise, bs) == {b \in DOMAIN bs : bs[b]._get /\ NeedsLookup(bs[b])}

\* lines 123-131: the bots whose getLoginInfo a call of getSelfIds calls
ToResolve(promise, bs) ==
    IF promise = "unset"
    THEN {b \in DOMAIN bs : bs[b]._get /\ NeedsLookup(bs[b])}
    ELSE {}

\* the state of the promise of Promise.all (lines 125-130)
Settled ==
    IF _getSelfIdsPromise = "unset" THEN "unset"
    ELSE IF \E b \in Bots : bots[b].login = "failed" THEN "rejected"
    ELSE IF \E b \in Bots : bots[b].login = "pending" THEN "pending"
    ELSE "resolved"

\* getSelfIds up to `await this._getSelfIdsPromise` (lines 123-132)
getSelfIds(c) ==
    /\ callers[c].pc = "idle"
    /\ \A e \in 1 .. (c - 1) : callers[e].pc # "idle"
    /\ LET look == ToResolve(_getSelfIdsPromise, bots)
       IN  bots' = [b \in Bots |->
                      IF b \in look
                      THEN [bots[b] EXCEPT !.login = "pending", !.lookups = @ + 1]
                      ELSE bots[b]]
    /\ _getSelfIdsPromise' = "set"
    /\ callers' = [callers EXCEPT ![c].pc = "await",
                                  ![c].pending = (Settled = "pending")]
    /\ UNCHANGED <<status, lifecycle, options, _atMeRE, parsed>>
    /\ UNCHANGED dispatchVars

\* bot.getLoginInfo() returns (lines 127-129) or fails
LoginInfo(b, ok) ==
    /\ bots[b].login = "pending"
    /\ bots' = [bots EXCEPT ![b].login = IF ok THEN "done" ELSE "failed",
                            ![b].selfId = IF ok THEN b ELSE @]
    /\ _atMeRE' = IF ok THEN prepared(bots') ELSE _atMeRE
    /\ UNCHANGED <<status, lifecycle, _getSelfIdsPromise, callers, options, parsed>>
    /\ UNCHANGED dispatchVars

\* bots.map(bot => bot.selfId) over the bots with _get (lines 123, 133)
SelfIdList(bs) ==
    LET Of(b) == IF bs[b]._get THEN <<bs[b].selfId>> ELSE <<>>
    IN  Of(1) \o Of(2)

\* `await this._getSelfIdsPromise` completes (lines 132-133)
Resume(c) ==
    /\ callers[c].pc = "await"
    /\ Settled \in {"resolved", "rejected"}
    /\ callers' = [callers EXCEPT
                     ![c].pc = IF Settled = "resolved" THEN "returned" ELSE "threw",
                     ![c].result = IF Settled = "resolved" THEN SelfIdList(bots) ELSE <<>>]
    /\ UNCHANGED <<status, lifecycle, bots, _getSelfIdsPromise, options, _atMeRE, parsed>>
    /\ UNCHANGED dispatchVars

\* ------------------------------------------------------- start and stop
MaxLifecycle == 3   \* calls of start() and stop()

\* start() up to `await this.parallelize('before-connect')` (lines 144-145)
start ==
    /\ Len(lifecycle) < MaxLifecycle
    /\ status' = "opening"
    /\ lifecycle' = Append(lifecycle, [op |-> "start", pc |-> "await"])
    /\ UNCHANGED <<bots, _getSelfIdsPromise, callers, options, _atMeRE, parsed>>
    /\ UNCHANGED dispatchVars

\* stop() up to `await this.parallelize('before-disconnect')` (lines 153-154)
stop ==
    /\ Len(lifecycle) < MaxLifecycle
    /\ status' = "closing"
    /\ lifecycle' = Append(lifecycle, [op |-> "stop", pc |-> "await"])
    /\ UNCHANGED <<bots, _getSelfIdsPromise, callers, options, _atMeRE, parsed>>
    /\ UNCHANGED dispatchVars

\* the 'before-connect' listeners of call i have completed (lines 146-149)
Connected(i) ==
    /\ i \in 1 .. Len(lifecycle)
    /\ lifecycle[i] = [op |-> "start", pc |-> "await"]
    /\ status' = "open"
    /\ lifecycle' = [lifecycle EXCEPT ![i].pc = "done"]
    /\ UNCHANGED <<bots, _getSelfIdsPromise, callers, options, _atMeRE, parsed>>
    /\ UNCHANGED dispatchVars

\* the 'before-disconnect' listeners of call i have completed (lines 155-157)
Disconnected(i) ==
    /\ i \in 1 .. Len(lifecycle)
    /\ lifecycle[i] = [op |-> "stop", pc |-> "await"]
    /\ status' = "closed"
    /\ lifecycle' = [lifecycle EXCEPT ![i].pc = "done"]
    /\ UNCHANGED <<bots, _getSelfIdsPromise, callers, options, _atMeRE, parsed>>
    /\ UNCHANGED dispatchVars

\* ----------------------------------------------------------- specifications
MaxLen == MaxHooks + MaxFallbacks + 1      \* longest snapshot

\* An App without database: concurrent dispatches through plugin middlewares
\* the App as constructed, with a bot of known selfId and nothing configured
AppConstructed ==
    /\ status = "closed"
    /\ lifecycle = <<>>
    /\ bots = [b \in Bots |-> Bot(b, TRUE, b = 1)]
    /\ _getSelfIdsPromise = "unset"
    /\ callers = [c \in 1 .. MaxCallers |-> NoCaller]
    /\ options = [nickname |-> NoOption, prefix |-> NoOption]
    /\ _atMeRE = Undefined
    /\ parsed = NoParsed

\* the dispatcher as constructed
DispatcherConstructed ==
    /\ hooks = <<PreprocessHook>>
    /\ _middlewareCounter = 0
    /\ _middlewareSet = {}
    /\ disp = [d \in Tokens |-> Idle]

Init ==
    /\ database = FALSE
    /\ DispatcherConstructed
    /\ AppConstructed

Next ==
    \/ \E scope \in Scopes : middleware(scope)
    \/ \E kind \in {"private", "group"}, argv \in BOOLEAN :
          _applyMiddlewares(kind, 1, FALSE, argv, {})
    \/ \E d \in Tokens : AfterMiddleware(d)
    \/ \E d \in Tokens : Flush(d)
    \/ \E d \in Tokens : Rejected(d)
    \/ \E d \in Tokens, p \in 1 .. MaxLen, fb, throws \in BOOLEAN :
          MwNext(d, p, fb, throws)
    \/ \E d \in Tokens, p \in 1 .. MaxLen : MwReturn(d, p)
    \/ \E d \in Tokens, p \in 1 .. MaxLen : MwReject(d, p)
    \/ \E d \in Tokens, throws \in BOOLEAN : PreTrigger(d, throws)
    \/ \E d \in Tokens, ok \in BOOLEAN : PreExecuted(d, ok)

Spec == Init /\ [][Next]_vars

\* An App with or without database, and the dispatch of its first message:
\* every stored row and every listener verdict is enumerated
InitMessage ==
    /\ database \in BOOLEAN
    /\ DispatcherConstructed
    /\ AppConstructed

\* the first message arrives (listened: the columns the listeners of the
\* first 'before-attach-*' event add, which they do for a resolved command)
ReceiveFirst(kind, selfId, mentions, argv, listened) ==
    /\ _middlewareCounter = 0
    /\ (~database \/ ~argv) => listened = {}
    /\ _applyMiddlewares(kind, selfId, mentions, argv, listened)

NextMessage ==
    \/ middleware(Kinds)
    \/ \E kind \in Kinds, mentions, argv \in BOOLEAN,
             listened \in SUBSET ListenerFields :
          ReceiveFirst(kind, 1, mentions, argv, listened)
    \/ \E d \in Tokens : AfterMiddleware(d)
    \/ \E d \in Tokens : Flush(d)
    \/ \E d \in Tokens : Rejected(d)
    \/ \E d \in Tokens, p \in 1 .. MaxLen, fb, throws \in BOOLEAN :
          MwNext(d, p, fb, throws)
    \/ \E d \in Tokens, p \in 1 .. MaxLen : MwReturn(d, p)
    \/ \E d \in Tokens, p \in 1 .. MaxLen : MwReject(d, p)
    \/ \E d \in Tokens, flag \in Flags, assignee \in Bots :
          PreObserveGroup(d, flag, assignee)
    \/ \E d \in Tokens, veto \in BOOLEAN, listened \in SUBSET ListenerFields :
          PreAttachGroup(d, veto, listened)
    \/ \E d \in Tokens, flag \in Flags : PreObserveUser(d, flag)
    \/ \E d \in Tokens, veto \in BOOLEAN : PreAttachUser(d, veto)
    \/ \E d \in Tokens, throws \in BOOLEAN : PreTrigger(d, throws)
    \/ \E d \in Tokens, ok \in BOOLEAN : PreExecuted(d, ok)

SpecMessage == InitMessage /\ [][NextMessage]_vars

\* The addressing of one message, under every configuration of the nickname
\* and prefix options and of the bots, before and after prepare()
NicknameOptions == {NoOption, [isArray |-> FALSE, items |-> << <<"k">> >>]}
PrefixOptions == {NoOption, [isArray |-> FALSE, items |-> << <<".">> >>],
                  [isArray |-> TRUE, items |-> <<>>],
                  [isArray |-> TRUE, items |-> << <<".">>, <<"/">> >>]}

InitParse ==
    /\ database = FALSE
    /\ DispatcherConstructed
    /\ status = "closed"
    /\ lifecycle = <<>>
    /\ bots \in {[b \in Bots |-> IF b = 1 THEN Bot(b, TRUE, given1)
                                              ELSE Bot(b, get2, TRUE)] :
                    given1, get2 \in BOOLEAN}
    /\ _getSelfIdsPromise = "unset"
    /\ callers = [c \in 1 .. MaxCallers |-> NoCaller]
    /\ options \in [nickname : NicknameOptions, prefix : PrefixOptions]
    /\ _atMeRE = Undefined
    /\ parsed = NoParsed

NextParse ==
    \/ prepare
    \/ /\ ~parsed.done
       /\ \E messageType \in Kinds, raw \in Messages(MaxMsgLen) :
             PreprocessMessage(messageType, raw)

SpecParse == InitParse /\ [][NextParse]_vars

\* The resolution of the bots' identifiers under concurrent callers
InitSelfIds ==
    /\ database = FALSE
    /\ DispatcherConstructed
    /\ status = "closed"
    /\ lifecycle = <<>>
    /\ bots \in {[b \in Bots |-> Bot(b, get[b], given[b])] :
                    get \in [Bots -> BOOLEAN], given \in [Bots -> BOOLEAN]}
    /\ _getSelfIdsPromise = "unset"
    /\ callers = [c \in 1 .. MaxCallers |-> NoCaller]
    /\ options = [nickname |-> NoOption, prefix |-> NoOption]
    /\ _atMeRE = Undefined
    /\ parsed = NoParsed

NextSelfIds ==
    \/ \E c \in 1 .. MaxCallers : getSelfIds(c)
    \/ \E b \in Bots, ok \in BOOLEAN : LoginInfo(b, ok)
    \/ \E c \in 1 .. MaxCallers : Resume(c)

SpecSelfIds == InitSelfIds /\ [][NextSelfIds]_vars

\* The calls of start() and stop(), in every order and interleaving
InitLifecycle ==
    /\ database = FALSE
    /\ DispatcherConstructed
    /\ AppConstructed

NextLifecycle ==
    \/ start
    \/ stop
    \/ \E i \in 1 .. MaxLifecycle : Connected(i)
    \/ \E i \in 1 .. MaxLifecycle : Disconnected(i)

SpecLifecycle == InitLifecycle /\ [][NextLifecycle]_vars

\* ------------------------------------------------------------------ claims
Started(d) == disp[d].task # "idle"

\* _applyMiddlewares has returned or thrown
Terminated(d) == disp[d].task \in {"done", "rejected"}

\* the token is gone, 'after-middleware' was emitted once, every attached row
\* was flushed once
CleanedUpOnce(d) ==
    /\ d \notin _middlewareSet
    /\ disp[d].emitted = 1
    /\ disp[d].userFlushed = (IF disp[d].session.hasUser THEN 1 ELSE 0)
    /\ disp[d].groupFlushed = (IF disp[d].session.hasGroup THEN 1 ELSE 0)

\* the middleware at position p returned without invoking its continuation
ShortCircuits(r, p) == r.status[p] = "resolved" /\ r.calls[p] = 0

\* the step invokes the continuation of dispatch d after d's token was removed
StaleInvocation(d) ==
    /\ Started(d)
    /\ d \notin _middlewareSet
    /\ disp'[d].ncalls > disp[d].ncalls

\* C1: in a dispatch in which a middleware returned without invoking its
\* continuation, no middleware or fallback at a later snapshot position is
\* executed, and when the dispatch has ended its cleanup has run exactly once.
C1_ShortCircuit ==
    \A d \in Tokens :
        LET r == disp[d]
        IN  (\E p \in Positions(r) : ShortCircuits(r, p)) =>
                /\ \A p \in Positions(r) : ShortCircuits(r, p) =>
                       \A q \in Positions(r) : q > p => r.status[q] = "idle"
                /\ r.emitted <= 1
                /\ Terminated(d) => CleanedUpOnce(d)

\* C2: however the chain ends (normally, short-circuited, by a throw, by a
\* rejection), the dispatch ends with its token removed, 'after-middleware'
\* emitted and the attached rows flushed.
C2_EndAlwaysReached ==
    \A d \in Tokens : Terminated(d) => CleanedUpOnce(d)

\* C3: the failure of a middleware never leaves the _applyMiddlewares call of
\* its message, and the step in which a middleware of one dispatch fails
\* changes nothing of any other dispatch.
C3_FailureContained ==
    /\ [](\A d \in Tokens : disp[d].task # "rejected")
    /\ [][\A d \in Tokens :
            (\E p \in Positions(disp'[d]) :
                /\ disp'[d].status[p] \in {"thrown", "rejected"}
                /\ p \in Positions(disp[d]) => disp[d].status[p] \in {"idle", "running"})
            => \A e \in Tokens \ {d} :
                  /\ disp'[e] = disp[e]
                  /\ (e \in _middlewareSet') = (e \in _middlewareSet)]_vars

\* C4: a continuation invoked after the token of its dispatch has been removed
\* executes no middleware, does not advance the cursor and does not append a
\* fallback to the snapshot.
C4_StaleContinuationInert ==
    [][\A d \in Tokens : StaleInvocation(d) =>
          /\ disp'[d].index = disp[d].index
          /\ disp'[d].middlewares = disp[d].middlewares
          /\ disp'[d].status = disp[d].status
          /\ disp'[d].order = disp[d].order]_vars

\* a continuation was invoked after cleanup while a middleware of the
\* snapshot had not been run
C4_Witness ==
    \E d \in Tokens :
        /\ disp[d].last.error = "isolated"
        /\ disp[d].index < Len(disp[d].middlewares)
        /\ \E e \in Tokens \ {d} : disp[e].task = "chain"

\* C5 as stated: the error of a continuation invoked after cleanup reaches
\* whoever invoked it.
C5_StaleErrorSurfaces ==
    \A d \in Tokens : disp[d].last.error = "isolated" => ~disp[d].last.caught

\* C5, amended: a continuation invoked after the token of its dispatch has
\* been removed raises the 'isolated next function' error, which the catch
\* clause of the continuation catches and logs as a warning; the invocation
\* itself completes without error, having run no middleware.
C5_StaleErrorLogged ==
    [][\A d \in Tokens : StaleInvocation(d) =>
          /\ disp'[d].last = [error |-> "isolated", caught |-> TRUE]
          /\ disp'[d].warn = disp[d].warn + 1
          /\ disp'[d].order = disp[d].order]_vars

\* a continuation was invoked after its dispatch had completed cleanup
C5_Witness ==
    \E d \in Tokens :
        /\ disp[d].task = "done"
        /\ disp[d].last.error = "isolated"
        /\ disp[d].warn >= 1

\* the middlewares at the positions before p have invoked their
\* continuations n times in all
CallsBefore(r, p) == SumSeq(SubSeq(r.calls, 1, p - 1))

RECURSIVE Registered(_)
Registered(mws) ==
    IF mws = <<>> THEN <<>>
    ELSE IF Head(mws).fallback THEN Registered(Tail(mws))
    ELSE <<Head(mws)>> \o Registered(Tail(mws))

\* C7: the registered middlewares of a dispatch are those of the moment it
\* started; a registration leaves every dispatch as it is, and an entry
\* appended to a snapshot is a fallback, changes neither the registration list
\* nor the snapshot of another dispatch.
C7_SnapshotFixed ==
    [][\A d \in Tokens :
          /\ Started(d) => Registered(disp'[d].middlewares) = Registered(disp[d].middlewares)
          /\ hooks' # hooks => disp'[d] = disp[d]
          /\ disp'[d].middlewares # disp[d].middlewares =>
                /\ hooks' = hooks
                /\ \A e \in Tokens \ {d} : disp'[e].middlewares = disp[e].middlewares]_vars

\* a middleware was registered while a dispatch was in flight, whose
\* continuation has since been invoked beyond the end of its snapshot, and
\* another dispatch appended a fallback to its own snapshot
C7_Witness ==
    \E d, e \in Tokens :
        /\ d # e
        /\ disp[d].task \in {"chain", "flush", "done"}
        /\ Len(hooks) > disp[d].nhooks
        /\ disp[d].index > Len(disp[d].middlewares)
        /\ NumFallbacks(disp[d]) = 0
        /\ NumFallbacks(disp[e]) > 0

\* C8: the live set holds exactly the tokens of the dispatches whose chain
\* has not finished; tokens are minted in increasing order; the set is empty
\* when no dispatch is in flight.
C8_LiveSetExact ==
    /\ _middlewareSet = {d \in Tokens : disp[d].task = "chain"}
    /\ \A d \in Tokens : Started(d) <=> d < _middlewareCounter
    /\ (\A d \in Tokens : disp[d].task \notin {"chain", "flush"}) => _middlewareSet = {}

\* _preprocess has run its last two lines
Triggered(r) == r.attach >= 1 /\ r.pre \in {"execute", "end"}

\* C9: once a message has passed the gate, _preprocess executes the resolved
\* command and never invokes its continuation, so that no later middleware
\* runs; with no command resolved it executes none and invokes its
\* continuation exactly once.
C9_CommandOrContinuation ==
    \A d \in Tokens :
        LET r == disp[d]
        IN  /\ (Started(d) /\ ~Triggered(r)) => r.executed = 0 /\ r.preCalls = 0
            /\ (Triggered(r) /\ r.session.argv) =>
                   /\ r.executed = 1
                   /\ r.preCalls = 0
                   /\ \A p \in Positions(r) : ~IsPreprocess(r, p) => r.status[p] = "idle"
            /\ (Triggered(r) /\ ~r.session.argv) =>
                   r.executed = 0 /\ r.preCalls = 1

\* with database, a group message passed the gate, its command was executed
\* and the plugin middleware after _preprocess was not run
C9_Witness ==
    \E d \in Tokens :
        /\ database
        /\ disp[d].session.kind = "group"
        /\ disp[d].session.argv
        /\ disp[d].executed = 1
        /\ disp[d].task = "done"
        /\ Len(disp[d].middlewares) >= 2

\* the conditions on the loaded rows under which the gate aborts
GateAborts(s) ==
    \/ /\ s.kind = "group"
       /\ s.hasGroup
       /\ \/ HasBit(s.gflag, IgnoreBit)
          \/ s.assignee # s.selfId /\ ~s.atMe
    \/ s.hasUser /\ HasBit(s.uflag, IgnoreBit)

\* C10: with database, a message whose group row has the ignore bit set or
\* is assigned to another bot without the message being an at-mention, or
\* whose user row has the ignore bit set, is aborted: _preprocess returns, the
\* command is not executed, the continuation is not invoked, no later
\* middleware runs and 'attach' is not emitted.
C10_GateAborts ==
    \A d \in Tokens :
        LET r == disp[d]
        IN  (database /\ Started(d) /\ GateAborts(r.session)) =>
                /\ r.executed = 0
                /\ r.preCalls = 0
                /\ r.attach = 0
                /\ \A p \in Positions(r) : ~IsPreprocess(r, p) => r.status[p] = "idle"
                /\ r.pre \in {"attachGroup", "attachUser", "end"}
                /\ r.pre = "end" => r.status[PrePos(r)] = "resolved"

\* a group message with a command, assigned to another bot and no at-mention,
\* was aborted before a registered plugin middleware
C10_Witness ==
    \E d \in Tokens :
        LET s == disp[d].session
        IN  /\ database
            /\ s.kind = "group" /\ s.hasGroup /\ s.argv
            /\ ~HasBit(s.gflag, IgnoreBit)
            /\ s.assignee # s.selfId /\ ~s.atMe
            /\ disp[d].pre = "end"
            /\ disp[d].task = "done"
            /\ Len(disp[d].middlewares) >= 2

\* the rows of a session hold the built-in columns and those the
\* 'before-attach-*' listeners added
RowsLoaded(s) ==
    /\ s.hasUser
    /\ ({"flag"} \cup s.userListened) \subseteq s.user
    /\ s.kind = "group" =>
          /\ s.hasGroup
          /\ ({"flag", "assignee"} \cup s.groupListened) \subseteq s.group

\* C11: with database, the step in which _preprocess executes the command is
\* the one in which the 'attach' listeners complete, and by then the user row
\* (for a group message also the group row) has been loaded with the built-in
\* columns and every column the 'before-attach-*' listeners added; the rows
\* stay loaded afterwards.
C11_LoadedBeforeExecute ==
    [][\A d \in Tokens :
          /\ disp'[d].executed > disp[d].executed =>
                /\ disp[d].pre = "attach" /\ disp[d].attach = 1
                /\ database => RowsLoaded(disp[d].session)
          /\ (database /\ disp[d].executed >= 1) => RowsLoaded(disp'[d].session)]_vars

\* with database, the command of a group message was executed after listeners
\* had added a column to the group fields and to the user fields
C11_Witness ==
    \E d \in Tokens :
        LET s == disp[d].session
        IN  /\ database
            /\ s.kind = "group"
            /\ disp[d].executed = 1
            /\ s.groupListened # {} /\ s.userListened # {}
            /\ s.userListened \subseteq s.user

\* the calls of getSelfIds that have completed
Finished == {c \in 1 .. MaxCallers : callers[c].pc \in {"returned", "threw"}}

\* C12: however many calls of getSelfIds are made, before or after the first
\* resolution completes, getLoginInfo is called exactly once for each bot that
\* can be looked up and whose selfId was not known, and never for another bot;
\* every call awaits the one promise, and all calls observe the same outcome:
\* all throw, or all return the same list, which holds no unknown identifier.
C12_SharedResolution ==
    /\ \A b \in Bots :
          /\ bots[b].lookups <= 1
          /\ (bots[b].given \/ ~bots[b]._get) => bots[b].lookups = 0
          /\ (_getSelfIdsPromise # "unset" /\ ~bots[b].given /\ bots[b]._get) =>
                bots[b].lookups = 1
    /\ \A c \in 1 .. MaxCallers : callers[c].pc # "idle" => _getSelfIdsPromise = "set"
    /\ \A c, e \in Finished :
          /\ callers[c].pc = callers[e].pc
          /\ callers[c].result = callers[e].result
    /\ \A c \in Finished : callers[c].pc = "returned" =>
          /\ Settled = "resolved"
          /\ \A i \in 1 .. Len(callers[c].result) : callers[c].result[i] # 0

\* two calls returned the identifiers, the second made while the resolution
\* of the first was in flight; one bot was looked up, the other was known
C12_Witness ==
    /\ callers[1].pc = "returned" /\ callers[2].pc = "returned"
    /\ callers[2].pending
    /\ callers[1].result = <<1, 2>>
    /\ \E b \in Bots : bots[b].lookups = 1
    /\ \E b \in Bots : bots[b].given /\ bots[b]._get /\ bots[b].lookups = 0

\* the items of a list
Items(list) == {list[i] : i \in 1 .. Len(list)}

\* what a capture removed from the message
Part(capture) == IF capture = Null THEN <<>> ELSE capture

\* the trimmed message, and what is left of it after the at-mention and after
\* the nickname were removed
Trimmed == Trim(parsed.raw)
AfterAt == Drop(Trimmed, Len(Part(parsed.atCapture)))
AfterName == Drop(AfterAt, Len(Part(parsed.nameCapture)))

\* the message begins with an at-mention code
BeginsWithAtCode(m) == m # <<>> /\ \E id \in Bots : Head(m) = AtCode(id)

\* the configured items the trimmed message begins with
ItemsAt(m) == {x \in Items(nicknames) \cup Items(prefixes) : StartsWith(m, x)}

\* C13 as stated, for a message received after prepare() has built the
\* at-mention pattern: a message that begins with exactly one configured item
\* (and with no at-mention) loses exactly that item; one that begins with none
\* is left unchanged, with atMe false, nickname empty and prefix null.
C13_StripsExactlyTheItem ==
    (parsed.done /\ _atMeRE.set /\ ~BeginsWithAtCode(Trimmed)) =>
        /\ \A x \in ItemsAt(Trimmed) :
              ItemsAt(Trimmed) = {x} => parsed.message = Drop(Trimmed, Len(x))
        /\ ItemsAt(Trimmed) = {} =>
              /\ parsed.message = Trimmed
              /\ ~parsed.atMe
              /\ parsed.nickname = <<>>
              /\ parsed.prefix = Null

\* text t begins with nickname n, after an optional '@' and before a comma or
\* whitespace
AddressedBy(n, t) ==
    \E lead \in {0, 1} :
        /\ lead = 1 => (t # <<>> /\ Head(t) = "@")
        /\ StartsWith(Drop(t, lead), n)
        /\ Len(t) > lead + Len(n)
        /\ t[lead + Len(n) + 1] \in {",", Space}

\* capture c is an optional '@', nickname n and a separator: a comma followed
\* by whitespace, or whitespace
IsAddress(c, n) ==
    \E lead \in {<<>>, <<"@">>} :
        /\ StartsWith(c, lead \o n)
        /\ LET sep == Drop(c, Len(lead) + Len(n))
           IN  /\ sep # <<>>
               /\ sep[1] \in {",", Space}
               /\ \A i \in 2 .. Len(sep) : sep[i] = Space

\* C13, amended: _preprocess removes text from the front of the trimmed
\* message only: the at-mention match, the nickname match and the prefix
\* match, in this order, and what is left is $parsed.message.  A configured
\* nickname is removed exactly when it is followed by a comma or whitespace,
\* together with an optional leading '@' and the whole separator, and nickname
\* is all of the removed text.  Where the text then begins with exactly one
\* configured prefix, that prefix and nothing else is removed and prefix is
\* that item; where it begins with no prefix of a non-empty list, nothing is
\* removed and prefix is null.
C13_StripsMatchedAddress ==
    parsed.done =>
        /\ Trimmed = Part(parsed.atCapture) \o Part(parsed.nameCapture)
                        \o Part(parsed.prefix) \o parsed.message
        /\ (\E n \in Items(nicknames) : AddressedBy(n, AfterAt))
              <=> Part(parsed.nameCapture) # <<>>
        /\ Part(parsed.nameCapture) # <<>> =>
              /\ parsed.nickname = parsed.nameCapture
              /\ \E n \in Items(nicknames) : IsAddress(parsed.nameCapture, n)
              /\ ~(AfterName # <<>> /\ Head(AfterName) = Space)
        /\ \A x \in Items(prefixes) :
              {y \in Items(prefixes) : StartsWith(AfterName, y)} = {x} =>
                  /\ parsed.prefix = x
                  /\ parsed.message = Drop(AfterName, Len(x))
        /\ (prefixes # <<>> /\ \A y \in Items(prefixes) : ~StartsWith(AfterName, y)) =>
              /\ parsed.prefix = Null
              /\ parsed.message = AfterName

\* a message that begins with the one configured nickname and a space lost
\* the nickname and the space, and no prefix
C13_Witness ==
    /\ parsed.done
    /\ nicknames = << <<"k">> >>
    /\ prefixes = << <<".">> >>
    /\ ItemsAt(Trimmed) = {<<"k">>}
    /\ parsed.nickname = <<"k", Space>>
    /\ parsed.prefix = Null
    /\ parsed.message = <<"p">>

\* C14: a pattern built from an empty list matches no message: with no known
\* self-identifier atMe is never set, with no nickname the nickname pattern
\* sets no nickname, with an empty prefix list prefix stays null.
C14_EmptyListMatchesNothing ==
    parsed.done =>
        /\ (_atMeRE.set /\ SelfIdsOf(bots, Bots) = <<>>) => ~parsed.atMe
        /\ nicknames = <<>> => parsed.nickname = Part(parsed.atCapture)
        /\ prefixes = <<>> => parsed.prefix = Null

\* C15 as stated, for a message that begins with an at-mention and is
\* received after prepare() has built the at-mention pattern: in a session
\* that is not a group session atMe is false and no at-mention is consumed.
C15_AtMeGroupOnly ==
    (/\ parsed.done
     /\ _atMeRE.set
     /\ BeginsWithAtCode(Trimmed)
     /\ parsed.messageType # "group") =>
        /\ ~parsed.atMe
        /\ parsed.atCapture = Null

\* C15, amended: the at-mention is looked for in every session that is not
\* private: there a message that begins with the at-mention of a bot known to
\* prepare() gets atMe and loses the mention; in a private session atMe is
\* false and an at-mention at the front of the message stays in it.
C15_AtMeOutsidePrivate ==
    parsed.done =>
        /\ parsed.messageType = "private" =>
              /\ ~parsed.atMe
              /\ parsed.atCapture = Null
              /\ BeginsWithAtCode(Trimmed) => parsed.message = Trimmed
        /\ (/\ parsed.messageType # "private"
            /\ _atMeRE.set
            /\ \E id \in Items(SelfIdsOf(bots, Bots)) :
                  Trimmed # <<>> /\ Head(Trimmed) = AtCode(id)) =>
              /\ parsed.atMe
              /\ Len(parsed.atCapture) >= 1
              /\ StartsWith(Trimmed, parsed.atCapture)
              /\ \A i \in 2 .. Len(parsed.atCapture) : parsed.atCapture[i] = Space

\* in a discuss session, a message that begins with the at-mention of a known
\* bot got atMe and lost the mention
C15_Witness ==
    /\ parsed.done
    /\ parsed.messageType = "discuss"
    /\ parsed.atMe
    /\ parsed.atCapture = <<AtCode(1)>>
    /\ parsed.message = <<"p">>

\* the status changes the two paths allow
StatusPath == {<<"closed", "opening">>, <<"opening", "open">>,
               <<"open", "closing">>, <<"closing", "closed">>}

\* C16: in every order and interleaving of start() and stop(), the status
\* changes only along closed -> opening -> open and open -> closing -> closed;
\* it becomes open only in the step in which the 'before-connect' listeners of
\* a start() complete, closed only in the step in which the
\* 'before-disconnect' listeners of a stop() complete.
C16_StatusPath ==
    [][/\ status' # status => <<status, status'>> \in StatusPath
       /\ (status' = "open" /\ status # "open") =>
             \E i \in 1 .. Len(lifecycle) :
                /\ lifecycle[i] = [op |-> "start", pc |-> "await"]
                /\ lifecycle'[i].pc = "done"
       /\ (status' = "closed" /\ status # "closed") =>
             \E i \in 1 .. Len(lifecycle) :
                /\ lifecycle[i] = [op |-> "stop", pc |-> "await"]
                /\ lifecycle'[i].pc = "done"]_vars

\* the snapshot positions of a dispatch whose execution has failed
Failed(r) == {p \in Positions(r) : r.status[p] \in {"thrown", "rejected"}}

\* C17: once the execution of a middleware of a dispatch has failed, whatever
\* the middlewares started before it do afterwards, no entry of the snapshot
\* that had not yet started (middleware or fallback) is started.
C17_ChainHalts ==
    [][\A d \in Tokens :
          Failed(disp[d]) # {} =>
             \A q \in Positions(disp[d]) :
                disp[d].status[q] = "idle" => disp'[d].status[q] = "idle"]_vars

\* the appended fallbacks of a dispatch, and the entries that have started
Fallbacks(r) == {p \in Positions(r) : r.middlewares[p].fallback}
Begun(r) == {p \in Positions(r) : r.status[p] # "idle"}

\* where position p stands in the order in which the entries were started
Turn(r, p) == CHOOSE i \in 1 .. Len(r.order) : r.order[i] = p

\* each entry was started at most once
StartedOnce(r) ==
    \A i, j \in 1 .. Len(r.order) : r.order[i] = r.order[j] => i = j

\* started fallbacks were started in the order in which they were supplied
InSupplyOrder(r) ==
    \A f, g \in Fallbacks(r) :
       f < g =>
          /\ r.middlewares[f].cursor <= r.middlewares[g].cursor
          /\ g \in Begun(r) => f \in Begun(r) /\ Turn(r, f) < Turn(r, g)

C19_CursorOnlyIncreases ==
    /\ [](\A d \in Tokens :
             /\ StartedOnce(disp[d])
             /\ \A i \in 1 .. Len(disp[d].order) : disp[d].order[i] <= disp[d].index)
    /\ [][\A d \in Tokens :
             /\ disp'[d].index >= disp[d].index
             /\ disp'[d].order # disp[d].order =>
                   /\ disp'[d].index = disp[d].index + 1
                   /\ disp'[d].order = Append(disp[d].order, disp'[d].index)]_vars

\* a middleware has invoked its continuation twice, and each invocation started
\* an entry
C19_Witness ==
    \E d \in Tokens :
       \E p \in Positions(disp[d]) :
          /\ ~IsPreprocess(disp[d], p)
          /\ disp[d].calls[p] >= 2
          /\ Len(disp[d].order) >= 4

\* The dispatch of a session of the given kind through [_preprocess], without
\* a database, when the 'attach' listeners have completed (lines 225-216);
\* resolved: whether session.$argv holds a command
AtTrigger(kind, resolved) ==
    LET session == [NoSession EXCEPT !.kind = kind]
        r == [Idle EXCEPT !.task = "chain",
                          !.session = session,
                          !.middlewares = <<MwEntry(PreprocessHook)>>,
                          !.status = <<"idle">>,
                          !.calls = <<0>>]
    IN  _preprocess(next(r, TRUE, 0, FALSE, FALSE), FALSE, FALSE, resolved, {})

\* the command the first word of a message names: the word up to the first
\* white space, without the text up to its last '/', in lower case
Named(message) ==
    LET word == FirstWord(message)
        cut == {i \in 1 .. Len(word) : word[i] = "/"}
        from == IF cut = {} THEN 1 ELSE 1 + CHOOSE i \in cut : \A j \in cut : j <= i
    IN  [i \in 1 .. (Len(word) + 1 - from) |-> Lower(word[from + i - 1])]

====
